---- MODULE Spec2Model ----
(***************************************************************************)
(* Model of drizzlepac/hlautils/quality_analysis.py:                       *)
(*   extract_residuals / get_tangent_positions  (specification Spec)       *)
(*   determine_alignment_residuals              (specification SpecDAR)    *)
(* and of drizzlepac/hlautils/svm_quality_analysis.py:                     *)
(*   compare_ra_dec_crossmatches / compare_photometry (specification SpecXM)*)
(*   compare_num_sources                        (specification SpecNS)     *)
(* and of lib/betadrizzle/tweakutils.py:                                   *)
(*   write_shiftfile                            (specification SpecSF)     *)
(***************************************************************************)
EXTENDS Integers, Sequences, FiniteSets, TLC

VARIABLES group_dict, ref_ra, ref_dec, ref_is_array, cum_indx, start_indx,
          pc, exc, chip, nchips, fit_info, appended, good_names, resolved,
          late_ref, filenames, ref_src, contributed, fs, ret, run, nruns, xpc,
          unit, written, nproducts, done

evars == <<group_dict, ref_ra, ref_dec, ref_is_array, cum_indx, start_indx,
           pc, exc, chip, nchips, fit_info, appended, good_names, resolved,
           late_ref, filenames, ref_src, contributed>>
dvars == <<fs, ret, run, nruns>>
xvars == <<xpc, unit, written, nproducts, done>>
vars == <<evars, dvars, xvars>>

----------------------------------------------------------------------------
(* Bounds of the model *)

MaxChips == 3
MaxCat == 2
MaxMatch == 2
MaxRuns == 2
\* input files of one run, in list order (group_id is the list position)
Files == <<"ib2j01a1q_flt.fits", "ib2j01a2q_flt.fits">>

----------------------------------------------------------------------------
(* Arithmetic and array helpers (numpy semantics, 0-based indices) *)

RECURSIVE GCD(_, _)
GCD(a, b) == IF b = 0 THEN a ELSE GCD(b, a % b)

RECURSIVE SeqSum(_)
SeqSum(s) == IF s = <<>> THEN 0 ELSE Head(s) + SeqSum(Tail(s))

SeqSumSq(s) == SeqSum([k \in 1..Len(s) |-> s[k] * s[k]])

\* arr[mask] with a boolean mask of the same length
RECURSIVE MaskSelect(_, _)
MaskSelect(arr, mask) ==
    IF arr = <<>> THEN <<>>
    ELSE IF Head(mask) THEN <<Head(arr)>> \o MaskSelect(Tail(arr), Tail(mask))
         ELSE MaskSelect(Tail(arr), Tail(mask))

\* arr[idx] with an integer index array (fancy indexing); IndexError when out of range
InBounds(arr, idx) == \A k \in 1..Len(idx) : idx[k] >= 0 /\ idx[k] < Len(arr)
Gather(arr, idx) == [k \in 1..Len(idx) |-> arr[idx[k] + 1]]

\* list - ndarray, element by element
Minus(a, b) == [k \in 1..Len(a) |-> a[k] - b[k]]

\* sorted copy of a sequence of integers
RECURSIVE Insert(_, _)
Insert(v, s) ==
    IF s = <<>> THEN <<v>>
    ELSE IF v <= Head(s) THEN <<v>> \o s
         ELSE <<Head(s)>> \o Insert(v, Tail(s))

RECURSIVE Sorted(_)
Sorted(s) == IF s = <<>> THEN <<>> ELSE Insert(Head(s), Sorted(Tail(s)))

\* twice the median of a non-empty sequence (kept doubled to stay in the integers)
Median2(d) ==
    LET s == Sorted(d)
        n == Len(d)
    IN  IF n % 2 = 1 THEN 2 * s[(n + 1) \div 2]
        ELSE s[n \div 2] + s[n \div 2 + 1]

\* n^2 times the population variance of d
VarNum(d) == Len(d) * SeqSumSq(d) - SeqSum(d) * SeqSum(d)

----------------------------------------------------------------------------
(* astropy.stats.sigma_clipped_stats(data)[-1] with its defaults:          *)
(* sigma = 3, maxiters = 5, cenfunc = median, stdfunc = std.               *)
(* A standard deviation is represented by its square, a reduced fraction.  *)

ClipSigma == 3
ClipMaxIters == 5

\* one clipping pass: keep v with |v - median| <= sigma * std
ClipOnce(d) ==
    LET n == Len(d)
        m2 == Median2(d)
        vn == VarNum(d)
        Keep(v) == (2 * v - m2) * (2 * v - m2) * n * n
                      <= 4 * ClipSigma * ClipSigma * vn
    IN  SelectSeq(d, Keep)

RECURSIVE SigmaClip(_, _)
SigmaClip(d, iters) ==
    IF iters = 0 \/ d = <<>> THEN d
    ELSE LET c == ClipOnce(d)
         IN  IF Len(c) = Len(d) THEN d ELSE SigmaClip(c, iters - 1)

NaN == [kind |-> "nan", num |-> 0, den |-> 1]
None == [kind |-> "None", num |-> 0, den |-> 1]

StdOf(d) ==
    IF d = <<>> THEN NaN
    ELSE LET vn == VarNum(d)
             dn == Len(d) * Len(d)
             g == GCD(vn, dn)
         IN  [kind |-> "num", num |-> vn \div g, den |-> dn \div g]

sigma_clipped_std(d) == StdOf(SigmaClip(d, ClipMaxIters))

----------------------------------------------------------------------------
(* Chips: the elements of imglist (tweakwcs FITSWCS objects with meta)     *)

Groups == 1..Len(Files)

\* reference point of a chip's tangent plane (its WCS), one per group
Crval(g) == <<10 * g, 20 * g>>

\* det_to_world giving every declination twice
det_to_worldTwice(c, xs, ys) ==
    <<[k \in 1..Len(xs) |-> xs[k] + Crval(c.grp)[1]],
      [k \in 1..Len(ys) |-> ys[k] + Crval(c.grp)[2]]
          \o [k \in 1..Len(ys) |-> ys[k] + Crval(c.grp)[2]]>>

\* chip.det_to_world(x, y) and chip.world_to_tanp(ra, dec): the chip's own transform
det_to_world(c, xs, ys) ==
    <<[k \in 1..Len(xs) |-> xs[k] + Crval(c.grp)[1]],
      [k \in 1..Len(ys) |-> ys[k] + Crval(c.grp)[2]]>>

world_to_tanp(c, ras, decs) ==
    <<[k \in 1..Len(ras) |-> ras[k] - Crval(c.grp)[1]],
      [k \in 1..Len(decs) |-> decs[k] - Crval(c.grp)[2]]>>

\* detector position of row j of a chip's catalog, and the catalog of n rows
DetPt(j) == <<j, 2 * j + 1>>
Catalog(n) == [k \in 1..n |-> DetPt(k - 1)]

\* sky position the fit reports for input source i of group g
FitSky(g, i) == <<3 * i + 10 * g + 1, 5 * i + 20 * g + 3>>

\* fit parameters reported for group g (shift, <rot>, <scale>, skew)
FitParams(g) == [shift |-> <<5 + g, -3 - g>>, rot |-> 40 + g,
                 scale |-> 50 + g, skew |-> 60 + g]

\* indices the matcher may report (one past the rows a short catalog or a short
\* reference buffer has, so that out-of-window and out-of-range indices occur)
MatchIdx == 0..1

\* strictly increasing / duplicate-free index sequences (a 1:1 matcher lists
\* each source once)
IncSeqs(n) == {s \in [1..n -> MatchIdx] : \A k \in 1..(n - 1) : s[k] < s[k + 1]}
InjSeqs(n) == {s \in [1..n -> MatchIdx] : \A j, k \in 1..n : j # k => s[j] # s[k]}

RecognizedStatus == {"SUCCESS", "REFERENCE", "FAILED: not enough matches"}

\* fit_info of a group the fit never completed on: only 'status'
NoFit(status) ==
    [status |-> status, haskeys |-> FALSE, fitmask |-> <<>>,
     matched_ref_idx |-> <<>>, matched_input_idx |-> <<>>, fit_RA |-> <<>>,
     fit_DEC |-> <<>>, shift |-> <<0, 0>>, rot |-> 0, scale |-> 0,
     nmatches |-> 0, skew |-> 0]

\* fit_info of a group the fit ran on: matched index arrays, fit mask and
\* the fitted sky positions of the sources the mask keeps
FitInfo(g, status, inp, ref, mask) ==
    LET kept == MaskSelect(inp, mask)
        fp == FitParams(g)
    IN  [status |-> status, haskeys |-> TRUE, fitmask |-> mask,
         matched_ref_idx |-> ref, matched_input_idx |-> inp,
         fit_RA |-> [k \in 1..Len(kept) |-> FitSky(g, kept[k])[1]],
         fit_DEC |-> [k \in 1..Len(kept) |-> FitSky(g, kept[k])[2]],
         shift |-> fp.shift, rot |-> fp.rot, scale |-> fp.scale,
         nmatches |-> Len(inp), skew |-> fp.skew]

\* the fit mask keeps some match
Kept(mask) == \E k \in 1..Len(mask) : mask[k]

\* what align_wcs can leave in meta['fit_info'] of the chips of group g:
\* a completed fit, a failed fit, or a status no adapter defines; the last two
\* with or without the arrays of a completed fit.  Of the fits whose mask
\* rejects every match, the ones that match each source to itself are listed.
FitChoicesOf(g) ==
    {FitInfo(g, "SUCCESS", m[1], m[2], m[3]) :
        m \in {t \in UNION {IncSeqs(n) \X InjSeqs(n) \X [1..n -> BOOLEAN] :
                                n \in 0..MaxMatch} : Kept(t[3]) \/ t[1] = t[2]}}
    \cup {NoFit(status) : status \in {"FAILED: not enough matches", "BOGUS"}}
    \cup {FitInfo(g, status, <<0>>, <<0>>, <<TRUE>>) :
             status \in {"FAILED: not enough matches", "BOGUS"}}

\* the same, tabulated once per group
FitChoices == [g \in Groups |-> FitChoicesOf(g)]

Unset == NoFit("")

MkChip(g, catalog, fit) ==
    [grp |-> g, group_id |-> g - 1, filename |-> Files[g], status |-> fit.status,
     catalog |-> catalog, fit_info |-> fit]

NoChip == MkChip(1, <<>>, Unset)

----------------------------------------------------------------------------
(* extract_residuals, one pass of its loop body per chip                   *)

\* Python dict keys: an int key and a str key never compare equal
IntKey(i) == [t |-> "int", v |-> i]
\* key in d, for a dict d whose keys are all str
KeyIn(key, d) == key.t = "str" /\ key.v \in DOMAIN d

\* DictSet forgetting every other key
DictSetOnly(d, n, rec) == [m \in {n} |-> rec]

\* d[n] = rec
DictSet(d, n, rec) == [m \in DOMAIN d \cup {n} |-> IF m = n THEN rec ELSE d[m]]

\* the record a group gets at lines 130-133
FreshRecord(group_id) ==
    [group_id |-> group_id, type |-> "None", x |-> <<>>, y |-> <<>>,
     ref_x |-> <<>>, ref_y |-> <<>>, rms_x |-> None, rms_y |-> None]

\* NeedsInit testing the key the dict is indexed by
NeedsInitByName(c, gd) == c.filename \notin DOMAIN gd

\* line 129: is the record (re)initialised for this chip?
NeedsInit(c, gd) == ~KeyIn(IntKey(c.group_id), gd)

\* WhereInWindow keeping every position (no window test)
WhereInWindowAll(indices, lo, hi, pos) == [k \in 1..Len(indices) |-> pos + k - 1]

\* np.where(np.logical_and(indices >= start, indices < max + start))[0]
RECURSIVE WhereInWindow(_, _, _, _)
WhereInWindow(indices, lo, hi, pos) ==
    IF indices = <<>> THEN <<>>
    ELSE IF Head(indices) >= lo /\ Head(indices) < hi
         THEN <<pos>> \o WhereInWindow(Tail(indices), lo, hi, pos + 1)
         ELSE WhereInWindow(Tail(indices), lo, hi, pos + 1)

get_tangent_positions(c, indices, start) ==
    LET max_indx == Len(c.catalog)
        chip_indx == WhereInWindow(indices, start, max_indx + start, 0)
        tanp == world_to_tanp(c, Gather(c.fit_info.fit_RA, chip_indx),
                                 Gather(c.fit_info.fit_DEC, chip_indx))
    IN  [img_x |-> tanp[1], img_y |-> tanp[2], max_indx |-> max_indx,
         chip_mask |-> chip_indx]

\* RefTangent without the chip window (ref_ra[ref_indx] not cut by chip_mask)
RefTangentNoWindow(c, rra, rdec, ref_indx, chip_mask) ==
    world_to_tanp(c, Gather(rra, ref_indx), Gather(rdec, ref_indx))

\* line 152: reference positions of the matched pairs in the chip window
RefTangent(c, rra, rdec, ref_indx, chip_mask) ==
    world_to_tanp(c, Gather(Gather(rra, ref_indx), chip_mask),
                     Gather(Gather(rdec, ref_indx), chip_mask))

\* lines 165-166: the rms stored after a chip
RmsOf(img, ref) == sigma_clipped_std(Minus(img, ref))

\* WithFit with the two shift components exchanged
WithFitSwapped(rec, fi) ==
    [k \in DOMAIN rec \cup {"xsh", "ysh", "rot", "scale", "nmatches", "skew"} |->
        CASE k = "xsh" -> fi.shift[2]
          [] k = "ysh" -> fi.shift[1]
          [] k = "rot" -> fi.rot
          [] k = "scale" -> fi.scale
          [] k = "nmatches" -> fi.nmatches
          [] k = "skew" -> fi.skew
          [] OTHER -> rec[k]]

\* WithFit leaving 'skew' out
WithFitNoSkew(rec, fi) ==
    [k \in DOMAIN rec \cup {"xsh", "ysh", "rot", "scale", "nmatches"} |->
        CASE k = "xsh" -> fi.shift[1]
          [] k = "ysh" -> fi.shift[2]
          [] k = "rot" -> fi.rot
          [] k = "scale" -> fi.scale
          [] k = "nmatches" -> fi.nmatches
          [] OTHER -> rec[k]]

\* lines 156-159
WithFit(rec, fi) ==
    [k \in DOMAIN rec \cup {"xsh", "ysh", "rot", "scale", "nmatches", "skew"} |->
        CASE k = "xsh" -> fi.shift[1]
          [] k = "ysh" -> fi.shift[2]
          [] k = "rot" -> fi.rot
          [] k = "scale" -> fi.scale
          [] k = "nmatches" -> fi.nmatches
          [] k = "skew" -> fi.skew
          [] OTHER -> rec[k]]

\* The loop body (lines 126-166) on the locals st = [group_dict, ref_ra, ref_dec,
\* ref_is_array, cum_indx]; the result adds what happened: raised (the exception,
\* "" when none), start_indx (the argument of get_tangent_positions, -1 when it
\* was not called), resolved (line 152 was evaluated) and the positions appended.
ProcessChip(st, c) ==
    LET name == c.filename
        init == NeedsInit(c, st.group_dict)
        gd1 == IF init THEN DictSet(st.group_dict, name, FreshRecord(c.group_id))
               ELSE st.group_dict
        cum1 == IF init THEN 0 ELSE st.cum_indx
        base == [group_dict |-> gd1, ref_ra |-> st.ref_ra, ref_dec |-> st.ref_dec,
                 ref_is_array |-> st.ref_is_array, cum_indx |-> cum1,
                 raised |-> "", start_indx |-> -1, resolved |-> FALSE,
                 img_x |-> <<>>, img_y |-> <<>>, ref_x |-> <<>>, ref_y |-> <<>>]
        fi == c.fit_info
    IN  IF name \notin DOMAIN gd1 THEN [base EXCEPT !.raised = "KeyError"]
        ELSE IF c.status = "REFERENCE" THEN
            LET w == det_to_world(c, [k \in 1..Len(c.catalog) |-> c.catalog[k][1]],
                                     [k \in 1..Len(c.catalog) |-> c.catalog[k][2]])
            IN  [base EXCEPT !.group_dict = DictSet(gd1, name,
                                    [gd1[name] EXCEPT !.type = "REFERENCE"]),
                             !.ref_ra = st.ref_ra \o w[1],
                             !.ref_dec = st.ref_dec \o w[2],
                             !.ref_is_array = TRUE]
        ELSE IF ~fi.haskeys THEN [base EXCEPT !.raised = "KeyError"]
        ELSE IF cum1 < 0 THEN [base EXCEPT !.raised = "UnboundLocalError"]
        ELSE
            LET ref_indx == MaskSelect(fi.matched_ref_idx, fi.fitmask)
                img_indx == MaskSelect(fi.matched_input_idx, fi.fitmask)
                tp == get_tangent_positions(c, img_indx, cum1)
                cum2 == cum1 + tp.max_indx
                called == [base EXCEPT !.cum_indx = cum2, !.start_indx = cum1,
                                       !.resolved = TRUE]
            IN  IF ~st.ref_is_array THEN [called EXCEPT !.raised = "TypeError"]
                ELSE IF ~InBounds(st.ref_ra, ref_indx)
                     THEN [called EXCEPT !.raised = "IndexError"]
                ELSE
                    LET rt == RefTangent(c, st.ref_ra, st.ref_dec, ref_indx,
                                         tp.chip_mask)
                        r0 == WithFit([gd1[name] EXCEPT !.type = "IMAGE"], fi)
                        r1 == [r0 EXCEPT !.x = @ \o tp.img_x, !.y = @ \o tp.img_y,
                                         !.ref_x = @ \o rt[1], !.ref_y = @ \o rt[2],
                                         !.rms_x = RmsOf(tp.img_x, rt[1]),
                                         !.rms_y = RmsOf(tp.img_y, rt[2])]
                    IN  [called EXCEPT !.group_dict = DictSet(gd1, name, r1),
                                       !.img_x = tp.img_x, !.img_y = tp.img_y,
                                       !.ref_x = rt[1], !.ref_y = rt[2]]

Locals0 == [group_dict |-> <<>>, ref_ra |-> <<>>, ref_dec |-> <<>>,
            ref_is_array |-> FALSE, cum_indx |-> -1]

----------------------------------------------------------------------------
(* Specification Spec: extract_residuals run chip by chip over any imglist *)
(* of at most MaxChips chips.  History kept beside the locals:             *)
(*   fit_info    per group, the fit_info align_wcs left on its chips       *)
(*               (Unset until the first chip of the group needs it)        *)
(*   chip        the chip of the last pass                                 *)
(*   appended    per group name, everything lines 161-164 were given       *)
(*   good_names  names seen on a chip with status SUCCESS or REFERENCE     *)
(*   resolved    some chip has reached line 152                            *)
(*   late_ref    a REFERENCE chip added positions after that               *)
(*   filenames   the filenames of the chips taken from imglist so far      *)
(*   ref_src     per catalog row of the REFERENCE chips processed, in input *)
(*               order, the chip's group and the row                        *)
(*   contributed the positions lines 161-164 were given for the last chip   *)

NoPositions == [x |-> <<>>, y |-> <<>>, ref_x |-> <<>>, ref_y |-> <<>>]

EInit ==
    /\ group_dict = Locals0.group_dict
    /\ ref_ra = Locals0.ref_ra
    /\ ref_dec = Locals0.ref_dec
    /\ ref_is_array = Locals0.ref_is_array
    /\ cum_indx = Locals0.cum_indx
    /\ start_indx = -1
    /\ pc = "loop"
    /\ exc = ""
    /\ chip = NoChip
    /\ nchips = 0
    /\ fit_info = [g \in Groups |-> Unset]
    /\ appended = [n \in {Files[g] : g \in Groups} |-> NoPositions]
    /\ good_names = {}
    /\ resolved = FALSE
    /\ late_ref = FALSE
    /\ filenames = {}
    /\ ref_src = <<>>
    /\ contributed = NoPositions

\* line 125: the loop is running and imglist has another chip
MoreChips == pc = "loop" /\ nchips < MaxChips

\* one pass of the loop at line 125 over the next chip c of imglist
LoopBody(c) ==
    /\ LET st == [group_dict |-> group_dict, ref_ra |-> ref_ra, ref_dec |-> ref_dec,
                  ref_is_array |-> ref_is_array, cum_indx |-> cum_indx]
       IN  \E out \in {ProcessChip(st, c)} :
           /\ group_dict' = out.group_dict
           /\ ref_ra' = out.ref_ra
           /\ ref_dec' = out.ref_dec
           /\ ref_is_array' = out.ref_is_array
           /\ cum_indx' = out.cum_indx
           /\ start_indx' = out.start_indx
           /\ exc' = out.raised
           /\ pc' = IF out.raised = "" THEN "loop" ELSE "raised"
           /\ appended' = [appended EXCEPT ![c.filename] =
                              [x |-> @.x \o out.img_x, y |-> @.y \o out.img_y,
                               ref_x |-> @.ref_x \o out.ref_x,
                               ref_y |-> @.ref_y \o out.ref_y]]
           /\ contributed' = [x |-> out.img_x, y |-> out.img_y,
                              ref_x |-> out.ref_x, ref_y |-> out.ref_y]
           /\ resolved' = (resolved \/ out.resolved)
           /\ late_ref' = (late_ref \/ (resolved /\ Len(out.ref_ra) > Len(ref_ra)))
    /\ chip' = c
    /\ nchips' = nchips + 1
    /\ fit_info' = IF c.status = "REFERENCE" THEN fit_info
                   ELSE [fit_info EXCEPT ![c.grp] = c.fit_info]
    /\ good_names' = IF c.status \in {"SUCCESS", "REFERENCE"}
                     THEN good_names \cup {c.filename} ELSE good_names
    /\ filenames' = filenames \cup {c.filename}
    /\ ref_src' = IF c.status = "REFERENCE"
                  THEN ref_src \o [k \in 1..Len(c.catalog) |-> <<c.grp, c.catalog[k]>>]
                  ELSE ref_src
    /\ UNCHANGED <<dvars, xvars>>

\* the next chip is a chip of the reference group
ReferenceChip ==
    /\ MoreChips
    /\ \E g \in Groups, n \in 0..MaxCat :
           LoopBody(MkChip(g, Catalog(n), NoFit("REFERENCE")))

\* the next chip belongs to a group the fit ran on or failed on
ImageChip ==
    /\ MoreChips
    /\ \E g \in Groups, n \in 0..MaxCat :
           \E f \in IF fit_info[g] = Unset THEN FitChoices[g] ELSE {fit_info[g]} :
               LoopBody(MkChip(g, Catalog(n), f))

\* line 169: the list is exhausted and group_dict is returned
Return ==
    /\ pc = "loop"
    /\ pc' = "returned"
    /\ UNCHANGED <<group_dict, ref_ra, ref_dec, ref_is_array, cum_indx, start_indx,
                   exc, chip, nchips, fit_info, appended, good_names, resolved,
                   late_ref, filenames, ref_src, contributed>>
    /\ UNCHANGED <<dvars, xvars>>

DInit ==
    /\ fs = <<>>
    /\ ret = <<"None">>
    /\ run = [input |-> <<>>, num_srcs |-> <<>>, matched |-> FALSE,
              fit_raised |-> FALSE, statuses |-> <<>>, extracted |-> FALSE,
              exc |-> "", resids |-> <<>>, removed |-> FALSE, old |-> <<>>]
    /\ nruns = 0

\* no svm_quality_analysis function has been called: no unit of work has been
\* processed and none of its json files exists
NoUnit ==
    [fn |-> "", drizzle |-> <<>>, point_exists |-> FALSE, seg_exists |-> FALSE,
     point |-> <<>>, seg |-> <<>>, idx_point |-> <<>>, idx_seg |-> <<>>,
     raised |-> "", log |-> {}, matched |-> FALSE, missing_mask |-> <<>>,
     bitmask |-> <<>>, values |-> <<>>, wrote |-> FALSE, json |-> <<>>,
     content |-> <<>>, errors |-> <<>>]

XInit ==
    /\ xpc = "idle"
    /\ unit = NoUnit
    /\ written = <<>>
    /\ nproducts = 0
    /\ done = <<>>

Init == EInit /\ DInit /\ XInit

Next == ReferenceChip \/ ImageChip \/ Return

Spec == Init /\ [][Next]_vars

----------------------------------------------------------------------------
(* Claims about extract_residuals, checked under Spec                      *)

Names == DOMAIN group_dict

\* C1: after every chip processed, the x, y, ref_x and ref_y sequences of every
\* record of group_dict have the same length.
C1_EqualLengths ==
    \A n \in Names :
        /\ Len(group_dict[n].x) = Len(group_dict[n].y)
        /\ Len(group_dict[n].x) = Len(group_dict[n].ref_x)
        /\ Len(group_dict[n].x) = Len(group_dict[n].ref_y)

\* an IMAGE chip has been processed whose window kept one of two mask-valid pairs
C1_Witness ==
    /\ pc = "loop"
    /\ chip.status = "SUCCESS"
    /\ Len(MaskSelect(chip.fit_info.matched_ref_idx, chip.fit_info.fitmask)) = 2
    /\ Len(group_dict[chip.filename].x) = 1
    /\ Len(group_dict[chip.filename].ref_y) = 1

\* C2: when extract_residuals returns, the x, y, ref_x and ref_y of every record
\* are the concatenation, in input order, of the positions contributed by all
\* the chips of that group name (no chip discards what an earlier one appended).
\* Stated for the records of type IMAGE, the ones chips contribute positions to.
C2_Concatenation ==
    pc = "returned" =>
        \A n \in {m \in Names : group_dict[m].type = "IMAGE"} :
            /\ group_dict[n].x = appended[n].x
            /\ group_dict[n].y = appended[n].y
            /\ group_dict[n].ref_x = appended[n].ref_x
            /\ group_dict[n].ref_y = appended[n].ref_y

\* C3: for two consecutive IMAGE chips of one group name, the start_indx of the
\* second is the start_indx of the first plus the first chip's catalog length.
C3_OffsetPersists ==
    [][(/\ nchips' = nchips + 1
        /\ chip.status = "SUCCESS" /\ chip'.status = "SUCCESS"
        /\ chip.filename = chip'.filename
        /\ start_indx >= 0 /\ start_indx' >= 0)
       => start_indx' = start_indx + Len(chip.catalog)]_vars

\* C4: after every IMAGE chip, rms_x and rms_y of its group are the sigma-clipped
\* standard deviation of image minus reference over everything the group has
\* accumulated, not only over what the latest chip contributed.  Stated for the
\* chips that contribute at least one pair themselves.
C4_RmsOverAccumulation ==
    (/\ pc = "loop" /\ nchips > 0 /\ chip.status = "SUCCESS"
     /\ Len(group_dict[chip.filename].x) > 0) =>
        /\ group_dict[chip.filename].rms_x =
              sigma_clipped_std(Minus(appended[chip.filename].x,
                                      appended[chip.filename].ref_x))
        /\ group_dict[chip.filename].rms_y =
              sigma_clipped_std(Minus(appended[chip.filename].y,
                                      appended[chip.filename].ref_y))

\* C5: in every order of the chips, all REFERENCE positions are in the reference
\* buffer before any IMAGE chip resolves its matched reference indices: no
\* REFERENCE chip adds positions after an IMAGE chip reached line 152, and no
\* IMAGE chip indexes the buffer while it is still the initial empty list.
C5_ReferenceFirst == ~late_ref /\ exc # "TypeError"

\* C9: a group none of whose chips has status SUCCESS or REFERENCE has no record
\* in the mapping extract_residuals returns.
C9_NoRecordWithoutFit == pc = "returned" => Names \subseteq good_names

\* C10: a chip whose fit status is outside the recognized set makes
\* extract_residuals raise; it is never processed as an IMAGE chip and its group
\* gets no record of type IMAGE from it.
C10_UnknownStatusFails ==
    (nchips > 0 /\ chip.status \notin RecognizedStatus) =>
        /\ pc = "raised"
        /\ group_dict[chip.filename].type # "IMAGE"

\* C11: every record of type REFERENCE has empty x, y, ref_x and ref_y, also
\* when its group name occurred on IMAGE chips before.
C11_ReferenceEmpty ==
    \A n \in Names :
        group_dict[n].type = "REFERENCE" =>
            /\ group_dict[n].x = <<>> /\ group_dict[n].y = <<>>
            /\ group_dict[n].ref_x = <<>> /\ group_dict[n].ref_y = <<>>

\* a REFERENCE record of a name whose IMAGE chips contributed positions before
C11_Witness ==
    \E n \in Names :
        /\ group_dict[n].type = "REFERENCE"
        /\ appended[n].x # <<>>

\* the pairs of the last chip that pass its fit mask and lie in its window
LastChipPairs ==
    WhereInWindow(MaskSelect(chip.fit_info.matched_input_idx, chip.fit_info.fitmask),
                  start_indx, start_indx + Len(chip.catalog), 0)

\* C12: an IMAGE chip with no matched pair left after fit mask and chip window
\* does not make extract_residuals raise, and its group's record has empty
\* x, y, ref_x, ref_y and rms_x = rms_y = None.  Stated for chips that reach
\* line 152 with the reference buffer in place and their indices inside it.
C12_EmptyImageNull ==
    (/\ nchips > 0 /\ chip.status = "SUCCESS" /\ start_indx >= 0
     /\ exc \notin {"TypeError", "IndexError"}
     /\ LastChipPairs = <<>>) =>
        /\ pc # "raised"
        /\ group_dict[chip.filename].x = <<>> /\ group_dict[chip.filename].y = <<>>
        /\ group_dict[chip.filename].ref_x = <<>>
        /\ group_dict[chip.filename].ref_y = <<>>
        /\ group_dict[chip.filename].rms_x = None
        /\ group_dict[chip.filename].rms_y = None

\* C13: the mapping extract_residuals returns has exactly one record per
\* distinct filename of the chips of imglist.
C13_OneRecordPerName == pc = "returned" => Names = filenames

\* three chips of two files were processed and the mapping was returned
C13_Witness ==
    /\ pc = "returned" /\ nchips = 3
    /\ Cardinality(filenames) = 2 /\ Cardinality(Names) = 2

\* the group (list position) of a filename
GroupOf(n) == CHOOSE g \in Groups : Files[g] = n

\* C14: in every record of type IMAGE, xsh, ysh, rot, scale, nmatches and skew
\* are the values of the group's fit_info, unchanged; nmatches is the count the
\* fit reported, not the number of positions stored in x.
C14_FitFieldsCopied ==
    \A n \in Names :
        group_dict[n].type = "IMAGE" =>
            LET fi == fit_info[GroupOf(n)]
            IN  /\ group_dict[n].xsh = fi.shift[1]
                /\ group_dict[n].ysh = fi.shift[2]
                /\ group_dict[n].rot = fi.rot
                /\ group_dict[n].scale = fi.scale
                /\ group_dict[n].nmatches = fi.nmatches
                /\ group_dict[n].skew = fi.skew

\* a returned IMAGE record whose nmatches is 2 while x holds one position
C14_Witness ==
    /\ pc = "returned"
    /\ \E n \in Names :
          /\ group_dict[n].type = "IMAGE"
          /\ group_dict[n].nmatches = 2
          /\ Len(group_dict[n].x) = 1

\* the matched pairs <<input index, reference index>> of chip c that pass its
\* fit mask, in their original order
ValidPairs(c) ==
    LET fi == c.fit_info
        all == [k \in 1..Len(fi.matched_input_idx) |->
                   <<fi.matched_input_idx[k], fi.matched_ref_idx[k]>>]
    IN  MaskSelect(all, fi.fitmask)

\* those of them whose input index lies in [lo, hi)
PairsInWindow(c, lo, hi) ==
    LET Inside(p) == p[1] >= lo /\ p[1] < hi IN SelectSeq(ValidPairs(c), Inside)

\* s ends with t
EndsWith(s, t) == Len(s) >= Len(t) /\ SubSeq(s, Len(s) - Len(t) + 1, Len(s)) = t

\* C27: an IMAGE chip processed without an exception appends exactly the
\* fit-mask-valid matched pairs whose input index lies in
\* [start_indx, start_indx + len(catalog)), in their original order; the k-th
\* image position and the k-th reference position appended are the fitted
\* position of the input source and the reference position of one and the
\* same matched pair.
C27_WindowPairs ==
    (pc = "loop" /\ nchips > 0 /\ start_indx >= 0 /\ exc = "") =>
        LET n == chip.filename
            ps == PairsInWindow(chip, start_indx, start_indx + Len(chip.catalog))
            img == world_to_tanp(chip,
                       [k \in 1..Len(ps) |-> FitSky(chip.grp, ps[k][1])[1]],
                       [k \in 1..Len(ps) |-> FitSky(chip.grp, ps[k][1])[2]])
            ref == world_to_tanp(chip, [k \in 1..Len(ps) |-> ref_ra[ps[k][2] + 1]],
                                       [k \in 1..Len(ps) |-> ref_dec[ps[k][2] + 1]])
        IN  /\ contributed = [x |-> img[1], y |-> img[2],
                              ref_x |-> ref[1], ref_y |-> ref[2]]
            /\ EndsWith(group_dict[n].x, contributed.x)
            /\ EndsWith(group_dict[n].y, contributed.y)
            /\ EndsWith(group_dict[n].ref_x, contributed.ref_x)
            /\ EndsWith(group_dict[n].ref_y, contributed.ref_y)

\* an IMAGE chip with two mask-valid pairs, the first matched to reference
\* source 1, was processed without an exception and its window kept the first
\* pair only
C27_Witness ==
    /\ pc = "loop" /\ nchips > 0 /\ start_indx >= 0
    /\ Len(ValidPairs(chip)) = 2
    /\ ValidPairs(chip)[1][2] = 1
    /\ PairsInWindow(chip, start_indx, start_indx + Len(chip.catalog))
          = <<ValidPairs(chip)[1]>>
    /\ Len(group_dict[chip.filename].x) = 1

\* C28: ref_ra and ref_dec always have the same length, the sum of the catalog
\* lengths of the REFERENCE chips processed so far; they hold one position per
\* catalog row of these chips, in input order, and nothing an IMAGE chip did
\* has changed them.
C28_ReferenceBuffers ==
    /\ Len(ref_ra) = Len(ref_src)
    /\ Len(ref_dec) = Len(ref_src)
    /\ \A k \in 1..Len(ref_src) :
          /\ ref_ra[k] = ref_src[k][2][1] + Crval(ref_src[k][1])[1]
          /\ ref_dec[k] = ref_src[k][2][2] + Crval(ref_src[k][1])[2]

\* two REFERENCE chips of different files with catalogs of one row each and
\* then an IMAGE chip have been processed; the buffers hold 2 positions
C28_Witness ==
    /\ pc = "loop" /\ nchips = 3
    /\ chip.status = "SUCCESS" /\ start_indx >= 0 /\ exc = ""
    /\ Len(ref_ra) = 2 /\ Len(ref_dec) = 2
    /\ ref_src[1][1] # ref_src[2][1]

BaseFields == {"group_id", "type", "x", "y", "ref_x", "ref_y", "rms_x", "rms_y"}
FitFields == {"xsh", "ysh", "rot", "scale", "nmatches", "skew"}

\* C15: every returned record has type REFERENCE or IMAGE and the fields
\* group_id, type, x, y, ref_x, ref_y, rms_x, rms_y; the fit fields are present
\* exactly in the records of type IMAGE.
C15_RecordShape ==
    pc = "returned" =>
        \A n \in Names :
            /\ group_dict[n].type \in {"REFERENCE", "IMAGE"}
            /\ DOMAIN group_dict[n] =
                  IF group_dict[n].type = "IMAGE" THEN BaseFields \cup FitFields
                  ELSE BaseFields

\* a returned mapping with a REFERENCE record and an IMAGE record
C15_Witness ==
    /\ pc = "returned"
    /\ \E n, m \in Names :
          group_dict[n].type = "REFERENCE" /\ group_dict[m].type = "IMAGE"

----------------------------------------------------------------------------
(* determine_alignment_residuals(input, files)                             *)

\* extract_residuals(imglist): the loop over the whole list
RECURSIVE ExtractFrom(_, _)
ExtractFrom(st, imglist) ==
    IF imglist = <<>> THEN [raised |-> "", group_dict |-> st.group_dict]
    ELSE LET out == ProcessChip(st, Head(imglist))
         IN  IF out.raised # "" THEN [raised |-> out.raised,
                                      group_dict |-> out.group_dict]
             ELSE ExtractFrom([group_dict |-> out.group_dict, ref_ra |-> out.ref_ra,
                               ref_dec |-> out.ref_dec,
                               ref_is_array |-> out.ref_is_array,
                               cum_indx |-> out.cum_indx], Tail(imglist))

extract_residuals(imglist) == ExtractFrom(Locals0, imglist)

\* pipeline input names, as character sequences; the first two differ only
\* after their ninth character
Inputs ==
    {<<"i", "b", "2", "j", "0", "1", "0", "1", "0", "_", "a", "s", "n">>,
     <<"i", "b", "2", "j", "0", "1", "0", "1", "0", "_", "f", "l", "t">>,
     <<"i", "b", "2", "j", "0", "2">>}

RootLen == 9
\* line 108: "{}_astrometry_resids.json".format(input[:9])
ResidsFile(input) ==
    SubSeq(input, 1, IF Len(input) < RootLen THEN Len(input) ELSE RootLen)
        \o <<"_astrometry_resids.json">>

NoneRet == <<"None">>
RaisedRet == <<"raised">>

\* line 79: no file has more than MinSources sources
MinSources == 3
RECURSIVE SeqMax(_)
SeqMax(s) == IF Len(s) = 1 THEN s[1]
             ELSE LET m == SeqMax(Tail(s)) IN IF s[1] > m THEN s[1] ELSE m

\* line 79 with < in place of <=
TooFewStrict(num_srcs) == SeqMax(num_srcs) < MinSources

TooFew(num_srcs) == SeqMax(num_srcs) <= MinSources

\* lines 98-102 taking every status but a failed one as a success
AlignSuccessNotFailed(imglist) ==
    \E k \in 1..Len(imglist) : imglist[k].status \in {"SUCCESS", "REFERENCE"}

\* lines 98-102
AlignSuccess(imglist) ==
    \E k \in 1..Len(imglist) : imglist[k].status = "SUCCESS"

\* sources extract_point_sources finds on the SCI chips of one file (lines 72-75)
SrcCounts == {MinSources - 1, MinSources, MinSources + 1}
FileSources == {<<n>> : n \in SrcCounts} \cup {<<MinSources - 1, MinSources - 1>>}

\* the files of a run: none, the first, or both, each with its chips' sources
FileLists == UNION {[1..n -> FileSources] : n \in 0..Len(Files)}

\* lines 68-77: num_srcs, one entry per file
NumSrcs(files) == [i \in 1..Len(files) |-> SeqSum(files[i])]

\* what align_wcs may leave on the chips of file g in a run (on a file after
\* the first also a fit whose only match the fit mask drops)
RunFits(g) ==
    {NoFit("REFERENCE"), NoFit("FAILED: not enough matches"),
     FitInfo(g, "SUCCESS", <<0>>, <<0>>, <<TRUE>>)}
    \cup IF g = 1 THEN {} ELSE {FitInfo(g, "SUCCESS", <<0>>, <<0>>, <<FALSE>>)}

\* lines 84-86 and 93: the chips build_wcscat makes of file g (one per SCI
\* chip, its catalog the chip's sources), carrying the group's fit_info
RECURSIVE FileChips(_, _, _)
FileChips(g, srcs, fit) ==
    IF srcs = <<>> THEN <<>>
    ELSE <<MkChip(g, Catalog(Head(srcs)), fit)>> \o FileChips(g, Tail(srcs), fit)

RECURSIVE ImgList(_, _, _)
ImgList(files, fits, g) ==
    IF g > Len(files) THEN <<>>
    ELSE FileChips(g, files[g], fits[g]) \o ImgList(files, fits, g + 1)

NoRun == [input |-> <<>>, num_srcs |-> <<>>, matched |-> FALSE,
          fit_raised |-> FALSE, statuses |-> <<>>, extracted |-> FALSE,
          exc |-> "", resids |-> <<>>, removed |-> FALSE, old |-> <<>>]

----------------------------------------------------------------------------
(* json.dump and json.load, and the file written at lines 107-114.  A json *)
(* document is kept as its value tree; a number is kept as its text.       *)

DigitChars == <<"0", "1", "2", "3", "4", "5", "6", "7", "8", "9">>

\* str(n) for an integer n, character by character
RECURSIVE Digits(_)
Digits(n) == IF n < 10 THEN <<DigitChars[n + 1]>>
             ELSE Digits(n \div 10) \o <<DigitChars[(n % 10) + 1]>>
IntText(n) == IF n < 0 THEN <<"-">> \o Digits(-n) ELSE Digits(n)

\* int(text)
CharDigit(c) == CHOOSE d \in 0..9 : DigitChars[d + 1] = c
RECURSIVE DigitsValue(_)
DigitsValue(ds) ==
    IF ds = <<>> THEN 0
    ELSE 10 * DigitsValue(SubSeq(ds, 1, Len(ds) - 1)) + CharDigit(ds[Len(ds)])
IntValue(text) == IF text[1] = "-" THEN -DigitsValue(Tail(text)) ELSE DigitsValue(text)

JNull == [t |-> "null"]
JNumber(text) == [t |-> "number", text |-> text]
JString(str) == [t |-> "string", s |-> str]
JArray(items) == [t |-> "array", items |-> items]
JObject(members) == [t |-> "object", members |-> members]

NaNText == <<"N", "a", "N">>

\* EncodeFloat writing nan as null
EncodeFloatNoNaN(v) ==
    CASE v.kind \in {"None", "nan"} -> JNull
      [] OTHER -> JNumber(IntText(v.num) \o <<"/">> \o IntText(v.den))

\* a float or None: None is written null, nan is written NaN (allow_nan), a
\* number is written as the text of its exact value (numerator/denominator)
EncodeFloat(v) ==
    CASE v.kind = "None" -> JNull
      [] v.kind = "nan" -> JNumber(NaNText)
      [] OTHER -> JNumber(IntText(v.num) \o <<"/">> \o IntText(v.den))

\* the value of a json number
DecodeNumber(text) ==
    IF text = NaNText THEN NaN
    ELSE IF \E i \in 1..Len(text) : text[i] = "/"
    THEN LET i == CHOOSE j \in 1..Len(text) : text[j] = "/"
         IN  [kind |-> "num", num |-> IntValue(SubSeq(text, 1, i - 1)),
              den |-> IntValue(SubSeq(text, i + 1, Len(text)))]
    ELSE IntValue(text)

\* the fields of a record of group_dict, in insertion order (lines 130-133, 156-159)
FieldOrder == <<"group_id", "type", "x", "y", "ref_x", "ref_y", "rms_x", "rms_y",
                "xsh", "ysh", "rot", "scale", "nmatches", "skew">>

EncodeField(k, val) ==
    CASE k \in {"x", "y", "ref_x", "ref_y"} ->
            JArray([i \in 1..Len(val) |-> JNumber(IntText(val[i]))])
      [] k \in {"rms_x", "rms_y"} -> EncodeFloat(val)
      [] k = "type" -> IF val = "None" THEN JNull ELSE JString(val)
      [] OTHER -> JNumber(IntText(val))

EncodeRecord(rec) ==
    LET Has(k) == k \in DOMAIN rec
        ks == SelectSeq(FieldOrder, Has)
    IN  JObject([i \in 1..Len(ks) |-> [key |-> ks[i],
                                        value |-> EncodeField(ks[i], rec[ks[i]])]])

\* json.dump(resids, jfile): the document written for group_dict gd
json_dump(gd) ==
    LET Has(f) == f \in DOMAIN gd
        ks == SelectSeq(Files, Has)
    IN  JObject([i \in 1..Len(ks) |-> [key |-> ks[i], value |-> EncodeRecord(gd[ks[i]])]])

\* json.load(jfile): the Python value of a document (of a repeated key the
\* last member counts)
RECURSIVE json_load(_)
json_load(v) ==
    CASE v.t = "null" -> None
      [] v.t = "number" -> DecodeNumber(v.text)
      [] v.t = "string" -> v.s
      [] v.t = "array" -> [i \in 1..Len(v.items) |-> json_load(v.items[i])]
      [] OTHER ->
           [k \in {v.members[i].key : i \in 1..Len(v.members)} |->
               LET last == CHOOSE i \in 1..Len(v.members) :
                              /\ v.members[i].key = k
                              /\ \A j \in (i + 1)..Len(v.members) : v.members[j].key # k
               IN  json_load(v.members[last].value)]

\* os.remove(path)
RemoveFile(fsys, path) == [p \in DOMAIN fsys \ {path} |-> fsys[p]]

\* lines 110-114 leaving a file that is already there as it is
WriteResidsKeep(fsys, path, resids) ==
    IF path \in DOMAIN fsys THEN fsys ELSE DictSet(fsys, path, json_dump(resids))

\* lines 110-114: remove the file if it exists, then write the results to it
WriteResids(fsys, path, resids) ==
    LET cleared == IF path \in DOMAIN fsys THEN RemoveFile(fsys, path) ELSE fsys
    IN  DictSet(cleared, path, json_dump(resids))

\* One call.  fs maps the paths that exist to their content; ret is the value
\* returned; run records what the call did: matched (align_wcs was called),
\* fit_raised, resids (what extract_residuals returned), removed (line 111
\* removed a file, whose content was old), the fit statuses of imglist, extracted (extract_residuals was
\* called) and the exception that ended the call, if any.
Finish(input, files, nret, nfs, nrun) ==
    /\ ret' = nret
    /\ fs' = nfs
    /\ run' = [nrun EXCEPT !.input = input, !.num_srcs = NumSrcs(files)]
    /\ nruns' = nruns + 1
    /\ UNCHANGED <<evars, xvars>>

Aligned(input, files, imglist) ==
    LET base == [NoRun EXCEPT !.matched = TRUE,
                     !.statuses = [k \in 1..Len(imglist) |-> imglist[k].status]]
        resids_file == ResidsFile(input)
    IN  IF AlignSuccess(imglist)
        THEN \E resids \in {extract_residuals(imglist)} :
               IF resids.raised # ""
               THEN Finish(input, files, RaisedRet, fs,
                           [base EXCEPT !.extracted = TRUE, !.exc = resids.raised])
               ELSE Finish(input, files, resids_file,
                           WriteResids(fs, resids_file, resids.group_dict),
                           [base EXCEPT !.extracted = TRUE,
                                        !.resids = resids.group_dict,
                                        !.removed = (resids_file \in DOMAIN fs),
                                        !.old = IF resids_file \in DOMAIN fs
                                                THEN fs[resids_file] ELSE <<>>])
        ELSE Finish(input, files, NoneRet, fs, base)

determine_alignment_residuals ==
    /\ nruns < MaxRuns
    /\ \E input \in Inputs, files \in FileLists :
         IF files = <<>>
         THEN Finish(input, files, RaisedRet, fs, [NoRun EXCEPT !.exc = "ValueError"])
         ELSE IF TooFew(NumSrcs(files))
         THEN Finish(input, files, NoneRet, fs, NoRun)
         ELSE \/ Finish(input, files, NoneRet, fs,
                        [NoRun EXCEPT !.matched = TRUE, !.fit_raised = TRUE])
              \/ \E fits \in [1..Len(files) -> UNION {RunFits(g) : g \in Groups}] :
                    /\ \A g \in 1..Len(files) : fits[g] \in RunFits(g)
                    /\ Aligned(input, files, ImgList(files, fits, 1))

DNext == determine_alignment_residuals

SpecDAR == Init /\ [][DNext]_vars

----------------------------------------------------------------------------
(* Claims about determine_alignment_residuals, checked under SpecDAR       *)

HasSuccess(statuses) == \E k \in 1..Len(statuses) : statuses[k] = "SUCCESS"

\* the call returned None without calling the match/fit
EarlyNone == ret = NoneRet /\ ~run.matched

C7_NoSuccessNoResult ==
    [][nruns' = nruns + 1 =>
         /\ (run'.fit_raised \/ (run'.matched /\ ~HasSuccess(run'.statuses))) =>
               (~run'.extracted /\ fs' = fs /\ ret' = NoneRet)
         /\ ret' \notin {NoneRet, RaisedRet} =>
               (/\ HasSuccess(run'.statuses) /\ run'.extracted
                /\ ret' = ResidsFile(run'.input) /\ ret' \in DOMAIN fs')]_vars

\* the fit ran, left no image with status SUCCESS, and the call returned None
C7_Witness ==
    /\ nruns > 0
    /\ run.matched /\ ~run.fit_raised
    /\ run.statuses # <<>> /\ ~HasSuccess(run.statuses)
    /\ ret = NoneRet /\ ~run.extracted

\* C8: after a run that ends in a non-fatal failure (None returned), no file
\* exists at <input[:9]>_astrometry_resids.json.
C8_NoArtifactAfterFailure ==
    (nruns > 0 /\ ret = NoneRet) => ResidsFile(run.input) \notin DOMAIN fs

----------------------------------------------------------------------------
(* svm_quality_analysis.py: source catalogs and the cross-matcher          *)

\* rows of a catalog in the model
MaxRows == 2
\* drizzle files of one compare_photometry call
MaxProducts == 2

\* lines 264 and 503
good_flag_sum == 255

\* the value a catalog holds where a measurement is missing (NaN)
Missing == -1

RECURSIVE BitAnd(_, _)
BitAnd(a, b) ==
    IF a = 0 \/ b = 0 THEN 0
    ELSE (a % 2) * (b % 2) + 2 * BitAnd(a \div 2, b \div 2)

\* columns of the point and of the segment catalog; only the point catalog has CI
PointCols == {"RA", "DEC", "FLAGS", "MagAp1", "MagAp2", "MagErrAp1", "MagErrAp2", "CI"}
SegCols == {"RA", "DEC", "FLAGS", "MagAp1", "MagAp2", "MagErrAp1", "MagErrAp2"}
ColsOf(who) == IF who = "point" THEN PointCols ELSE SegCols

\* a row is its flag value and the column (if any) whose value is missing
RowKinds(who) ==
    {[flags |-> good_flag_sum, miss |-> ""], [flags |-> good_flag_sum - 1, miss |-> ""]}
    \cup IF who = "point" THEN {[flags |-> good_flag_sum, miss |-> "MagAp1"]}
         ELSE {[flags |-> good_flag_sum, miss |-> "RA"]}

\* the catalogs of at most n rows
TablesUpTo(who, n) ==
    {[who |-> who, rows |-> r] : r \in UNION {[1..k -> RowKinds(who)] : k \in 0..n}}

ColNo(col) ==
    CASE col = "RA" -> 1 [] col = "DEC" -> 2 [] col = "MagAp1" -> 3
      [] col = "MagAp2" -> 4 [] col = "MagErrAp1" -> 5 [] col = "MagErrAp2" -> 6
      [] OTHER -> 7

\* table[col][i], i counted from 0 ('Flags' is the flag column of the ecsv tables)
Cell(t, i, col) ==
    IF col \in {"FLAGS", "Flags"} THEN t.rows[i + 1].flags
    ELSE IF col = t.rows[i + 1].miss THEN Missing
    ELSE IF t.who = "point" THEN 100 * ColNo(col) + 10 * i
    ELSE 100 * ColNo(col) + 10 * i + i * i + ColNo(col)

\* strictly increasing / duplicate-free sequences of k row numbers below n
IncIdx(n, k) == {s \in [1..k -> 0..(n - 1)] : \A j \in 1..(k - 1) : s[j] < s[j + 1]}
InjIdx(n, k) == {s \in [1..k -> 0..(n - 1)] : \A i, j \in 1..k : i # j => s[i] # s[j]}

\* csl.getMatchedLists: what the cross-matcher can return for catalogs of na and
\* nb rows, the matched rows of each catalog, pair k being (first[k], second[k])
getMatchedLists(na, nb) ==
    UNION {IncIdx(na, k) \X InjIdx(nb, k) :
              k \in 0..(IF na < nb THEN na ELSE nb)}

\* the bitmask argument of csl.extractMatchedLines
NoBitmask == [given |-> FALSE, mask |-> <<>>]
Bitmask(m) == [given |-> TRUE, mask |-> m]

\* csl.extractMatchedLines: the column of both catalogs at the matched rows, as
\* a 2xN array, compressed by the bitmask when one is given
extractMatchedLines(col, a, b, ia, ib, bitmask) ==
    LET ra == [k \in 1..Len(ia) |-> Cell(a, ia[k], col)]
        rb == [k \in 1..Len(ib) |-> Cell(b, ib[k], col)]
    IN  IF bitmask.given
        THEN <<MaskSelect(ra, bitmask.mask), MaskSelect(rb, bitmask.mask)>>
        ELSE <<ra, rb>>

\* csl.mask_missing_values: per matched pair, no listed column is missing in
\* either catalog
mask_missing_values(a, b, ia, ib, columns) ==
    [k \in 1..Len(ia) |->
        \A col \in columns : /\ Cell(a, ia[k], col) # Missing
                             /\ Cell(b, ib[k], col) # Missing]

\* csl.make_flag_mask: per matched pair, both flags ANDed equal the good bits,
\* and the pair is not missing a value
make_flag_mask(matched_values, good, missing_mask) ==
    [k \in 1..Len(missing_mask) |->
        /\ BitAnd(matched_values[1][k], matched_values[2][k]) = good
        /\ missing_mask[k]]

----------------------------------------------------------------------------
(* compare_ra_dec_crossmatches(hap_obj)                                    *)

\* drizzle file names, split at '_': hap_obj.drizzle_filename, and the names
\* a drizzle_list can hold
HapDrizzle == <<"hst", "11665", "06", "wfc3", "ir", "f110w", "ib4606", "drz.fits">>
DrizzleFiles ==
    {HapDrizzle, <<"hst", "11665", "06", "wfc3", "uvis", "f275w", "ib4606", "drz.fits">>}

\* line 372: drizzle_filename[:-9] + "_svm_point_segment_crossmatch.json"
\* ("_drz.fits" is the nine characters cut)
CrossmatchJson(drizzle) ==
    SubSeq(drizzle, 1, Len(drizzle) - 1)
        \o <<"svm", "point", "segment", "crossmatch.json">>

Abs(v) == IF v < 0 THEN -v ELSE v

\* line 341: on-sky separation of the matched pairs (stand-in for SkyCoord:
\* zero exactly when both coordinates agree)
Separation(ras, decs) ==
    [k \in 1..Len(ras[1]) |-> Abs(ras[2][k] - ras[1][k]) + Abs(decs[2][k] - decs[1][k])]

\* line 352 (sigma, line 351, is 3 as ClipSigma)
XmMaxIters == 3

\* lines 344-356: statistics of a non-empty array (mean as sum and n, median
\* doubled, standard deviation as its square)
SepStats(sep) ==
    LET clipped == SigmaClip(sep, XmMaxIters)
    IN  [units |-> "arcseconds", min |-> Sorted(sep)[1], max |-> Sorted(sep)[Len(sep)],
         sum |-> SeqSum(sep), n |-> Len(sep), median2 |-> Median2(sep),
         std |-> StdOf(sep), clipped_sum |-> SeqSum(clipped),
         clipped_n |-> Len(clipped),
         clipped_median2 |-> IF clipped = <<>> THEN 0 ELSE Median2(clipped),
         clipped_std |-> StdOf(clipped)]

\* the zero-match test never taken
ZeroMatchesNever(ia, ib) == FALSE

\* lines 305 and 563: the cross-matcher found nothing
ZeroMatches(ia, ib) == Len(ia) = 0 \/ Len(ib) = 0

\* lines 315-318 with the bitmask left out
MaskedRaDecUnmasked(point, seg, ia, ib, bitmask) ==
    <<extractMatchedLines("RA", point, seg, ia, ib, NoBitmask),
      extractMatchedLines("DEC", point, seg, ia, ib, NoBitmask)>>

\* lines 315-318: matched_values_ra and matched_values_dec
MaskedRaDec(point, seg, ia, ib, bitmask) ==
    <<extractMatchedLines("RA", point, seg, ia, ib, Bitmask(bitmask)),
      extractMatchedLines("DEC", point, seg, ia, ib, Bitmask(bitmask))>>

\* lines 310-313 with the flag values left out
QualityMaskFlagsIgnored(flagcol, a, b, ia, ib, columns) ==
    mask_missing_values(a, b, ia, ib, columns)

\* lines 310-313 with no value taken as missing
QualityMaskNoMissing(flagcol, a, b, ia, ib, columns) ==
    make_flag_mask(extractMatchedLines(flagcol, a, b, ia, ib, NoBitmask),
                   good_flag_sum, [k \in 1..Len(ia) |-> TRUE])

\* lines 310-313 and 570-578: the mask of the pairs the statistics use
QualityMask(flagcol, a, b, ia, ib, columns) ==
    make_flag_mask(extractMatchedLines(flagcol, a, b, ia, ib, NoBitmask),
                   good_flag_sum, mask_missing_values(a, b, ia, ib, columns))

\* the whole function on hap_obj = [drizzle, point, seg], given what the
\* cross-matcher returns; the result records what was done
compare_ra_dec_crossmatches(hap, matched) ==
    LET point == hap.point
        seg == hap.seg
        columns_to_compare == ColsOf("point") \cap ColsOf("seg")
        slLengths == <<Len(point.rows), Len(seg.rows)>>
        ia == matched[1]
        ib == matched[2]
        u0 == [NoUnit EXCEPT !.fn = "compare_ra_dec_crossmatches",
                             !.drizzle = hap.drizzle, !.point_exists = TRUE,
                             !.seg_exists = TRUE, !.point = point, !.seg = seg,
                             !.idx_point = ia, !.idx_seg = ib, !.matched = TRUE]
    IN  \* lines 294-303: the percentages divide by the catalog lengths
        IF slLengths[1] = 0 \/ slLengths[2] = 0
        THEN [u0 EXCEPT !.raised = "ZeroDivisionError"]
        ELSE IF ZeroMatches(ia, ib)
        THEN [u0 EXCEPT !.log = {"error: no matching sources"}]
        ELSE
            LET bitmask == QualityMask("FLAGS", point, seg, ia, ib, columns_to_compare)
                rd == MaskedRaDec(point, seg, ia, ib, bitmask)
                u1 == [u0 EXCEPT !.missing_mask =
                                     mask_missing_values(point, seg, ia, ib,
                                                         columns_to_compare),
                                 !.bitmask = bitmask, !.values = rd]
            IN  IF Len(rd[1][1]) > 0 /\ Len(rd[1][1]) = Len(rd[2][1])
                THEN [u1 EXCEPT !.wrote = TRUE, !.json = CrossmatchJson(hap.drizzle),
                         !.content =
                            [details |-> [point_length |-> slLengths[1],
                                          segment_length |-> slLengths[2],
                                          crossmatches |-> Len(ia)],
                             point_cat |-> <<rd[1][1], rd[2][1]>>,
                             seg_cat |-> <<rd[1][2], rd[2][2]>>,
                             stats |-> SepStats(Separation(rd[1], rd[2]))]]
                ELSE [u1 EXCEPT !.log = {"warning: test could not be performed"}]

----------------------------------------------------------------------------
(* compare_photometry(drizzle_list), one drizzle file per pass of its loop *)

\* line 526: '_'.join([ipppss, detector, 'svm', filter_name, 'photometry.json'])
PhotometryJson(drizzle) ==
    <<drizzle[7], drizzle[5], "svm", drizzle[6], "photometry.json">>

\* the catalogs a product of the batch can have
PhotTables(who) == TablesUpTo(who, 1)

\* np.mean, np.median and np.std: NaN on an empty array, else a reduced fraction
\* (the standard deviation as its square)
Frac(num, den) ==
    LET g == GCD(num, den) IN [kind |-> "num", num |-> num \div g, den |-> den \div g]
MeanOf(d) == IF d = <<>> THEN NaN ELSE Frac(SeqSum(d), Len(d))
MedianOf(d) == IF d = <<>> THEN NaN ELSE Frac(Median2(d), 2)

\* PhotStats taking Segment - Point
PhotStatsSwapped(col, point, seg, ia, ib, mask) ==
    LET rows == extractMatchedLines(col, point, seg, ia, ib, Bitmask(mask))
        delta_phot == Minus(rows[2], rows[1])
    IN  [mean |-> MeanOf(delta_phot), std |-> StdOf(delta_phot),
         median |-> MedianOf(delta_phot)]

\* lines 585-608 for one magnitude column: the statistics of Point - Segment
\* over the masked matched pairs
PhotStats(col, point, seg, ia, ib, mask) ==
    LET rows == extractMatchedLines(col, point, seg, ia, ib, Bitmask(mask))
        delta_phot == Minus(rows[1], rows[2])
    IN  [mean |-> MeanOf(delta_phot), std |-> StdOf(delta_phot),
         median |-> MedianOf(delta_phot)]

\* lines 598-604: the square of result_error, per masked matched pair
ResultError2(col, point, seg, ia, ib, mask) ==
    LET rows == extractMatchedLines(col, point, seg, ia, ib, Bitmask(mask))
    IN  [k \in 1..Len(rows[1]) |-> rows[1][k] * rows[1][k] + rows[2][k] * rows[2][k]]

\* lines 513-615 on product p = [drizzle, point_exists, seg_exists, point, seg],
\* given what the cross-matcher returns for its catalogs
PhotometryBody(p, matched) ==
    LET point == p.point
        seg == p.seg
        ia == matched[1]
        ib == matched[2]
        missing == (IF p.point_exists THEN {} ELSE {"warning: point catalog does not exist"})
                   \cup (IF p.seg_exists THEN {}
                         ELSE {"warning: segment catalog does not exist"})
        u0 == [NoUnit EXCEPT !.fn = "compare_photometry", !.drizzle = p.drizzle,
                             !.point_exists = p.point_exists,
                             !.seg_exists = p.seg_exists, !.log = missing]
    IN  \* lines 542-543: ascii.read of a file that does not exist
        IF ~p.point_exists \/ ~p.seg_exists
        THEN [u0 EXCEPT !.raised = "FileNotFoundError"]
        ELSE
            LET common_columns == ColsOf("point") \cap ColsOf("seg")
                u1 == [u0 EXCEPT !.point = point, !.seg = seg, !.idx_point = ia,
                                 !.idx_seg = ib, !.matched = TRUE]
            IN  IF ZeroMatches(ia, ib)
                THEN [u1 EXCEPT !.log = {"warning: no matching sources"}]
                ELSE
                    LET mask == QualityMask("Flags", point, seg, ia, ib, common_columns)
                    IN  [u1 EXCEPT
                            !.missing_mask = mask_missing_values(point, seg, ia, ib,
                                                                 common_columns),
                            !.bitmask = mask,
                            !.values =
                                <<extractMatchedLines("MagAp1", point, seg, ia, ib,
                                                      Bitmask(mask)),
                                  extractMatchedLines("MagAp2", point, seg, ia, ib,
                                                      Bitmask(mask))>>,
                            !.errors =
                                <<ResultError2("MagErrAp1", point, seg, ia, ib, mask),
                                  ResultError2("MagErrAp2", point, seg, ia, ib, mask)>>,
                            !.wrote = TRUE, !.json = PhotometryJson(p.drizzle),
                            !.content =
                                [detector |-> p.drizzle[5], filter_name |-> p.drizzle[6],
                                 MagAp1 |-> PhotStats("MagAp1", point, seg, ia, ib, mask),
                                 MagAp2 |-> PhotStats("MagAp2", point, seg, ia, ib, mask)]]

----------------------------------------------------------------------------
(* compare_num_sources(catalog_list, drizzle_list)                         *)

\* drizzle files of the total products of a visit, split at '_'
TotalDrizzleFiles ==
    {<<"hst", "11665", "06", "wfc3", "ir", "total", "ib4606", "drz.fits">>,
     <<"hst", "11665", "06", "wfc3", "uvis", "total", "ib4606", "drz.fits">>}

\* line 187: ipppss + '_' + detector + '_svm_num_sources.json'
NumSourcesJson(drizzle) == <<drizzle[7], drizzle[5], "svm", "num", "sources.json">>

\* lines 190-191: the point and segment catalog names of a drizzle file
CatNames(drizzle) ==
    LET prefix == SubSeq(drizzle, 1, Len(drizzle) - 1)
    IN  <<prefix \o <<"point-cat.ecsv">>, prefix \o <<"segment-cat.ecsv">>>>

\* line 220: catalog.find("point") != -1 (no other part of these names holds
\* the word)
CatType(catalog) ==
    IF catalog[Len(catalog)] = "point-cat.ecsv" THEN "point" ELSE "segment"

\* line 198: catalog in x, for an entry x of catalog_list: a catalog name,
\* possibly behind a directory
CatalogIn(catalog, x) == x.name = catalog

\* Lines of a catalog file (ECSV: a block of comment lines, then the table),
\* character by character
\* '# %ECSV 0.9\n'
LineEcsv ==
    <<"#", " ", "%", "E", "C", "S", "V", " ", "0", ".", "9", "\n">>
\* '# ---\n'
LineSep ==
    <<"#", " ", "-", "-", "-", "\n">>
\* '# - {Number of sources: 12}\n'
LineCount12 ==
    <<"#", " ", "-", " ", "{", "N", "u", "m", "b", "e", "r", " ", "o", "f",
      " ", "s", "o", "u", "r", "c", "e", "s", ":", " ", "1", "2", "}", "\n">>
\* '# - {Number of sources: 7}\n'
LineCount7 ==
    <<"#", " ", "-", " ", "{", "N", "u", "m", "b", "e", "r", " ", "o", "f",
      " ", "s", "o", "u", "r", "c", "e", "s", ":", " ", "7", "}", "\n">>
\* '1.5 2.5\n'
LineData ==
    <<"1", ".", "5", " ", "2", ".", "5", "\n">>

\* The catalog files: the count in the comment block; a table row before the
\* count; no count line at all; the count on the first line
CatalogTexts ==
    {<<LineEcsv, LineSep, LineCount12, LineData>>,
     <<LineEcsv, LineData, LineCount12>>,
     <<LineEcsv, LineSep>>,
     <<LineCount7, LineData>>}

\* str.strip(), str.startswith(), str.find() != -1, str.split(' ')[-1], t[0:-1]
WhiteSpace == {" ", "\n", "\t"}
RECURSIVE LStrip(_)
LStrip(t) == IF t # <<>> /\ Head(t) \in WhiteSpace THEN LStrip(Tail(t)) ELSE t
RECURSIVE RStrip(_)
RStrip(t) == IF t # <<>> /\ t[Len(t)] \in WhiteSpace
             THEN RStrip(SubSeq(t, 1, Len(t) - 1)) ELSE t
Strip(t) == RStrip(LStrip(t))
StartsWith(t, p) == Len(t) >= Len(p) /\ SubSeq(t, 1, Len(p)) = p
Contains(t, p) == \E i \in 1..(Len(t) - Len(p) + 1) : SubSeq(t, i, i + Len(p) - 1) = p
RECURSIVE LastToken(_)
LastToken(t) ==
    IF t = <<>> THEN <<>>
    ELSE IF t[Len(t)] = " " THEN <<>>
    ELSE LastToken(SubSeq(t, 1, Len(t) - 1)) \o <<t[Len(t)]>>
DropLast(t) == SubSeq(t, 1, Len(t) - 1)

NumberOfSources ==
    <<"N", "u", "m", "b", "e", "r", " ", "o", "f", " ", "s", "o", "u", "r", "c", "e",
      "s">>

\* CountText keeping the last character of the token
CountTextWhole(sline) == LastToken(sline)

\* line 216: sline.split(' ')[-1][0:-1]
CountText(sline) == DropLast(LastToken(sline))

\* int(text) of line 221: ok is FALSE where Python raises ValueError
IsDigits(t) == t # <<>> /\ \A k \in 1..Len(t) : \E d \in 1..10 : DigitChars[d] = t[k]
PyInt(text) ==
    LET t == Strip(text)
        body == IF t # <<>> /\ t[1] \in {"-", "+"} THEN Tail(t) ELSE t
    IN  IF IsDigits(body)
        THEN [ok |-> TRUE, v |-> IF t[1] = "-" THEN -DigitsValue(body)
                                 ELSE DigitsValue(body)]
        ELSE [ok |-> FALSE, v |-> 0]

\* lines 201-221 for a listed catalog: the loop over the lines of the file and
\* int(num_sources)
RECURSIVE ScanLines(_)
ScanLines(lines) ==
    IF lines = <<>> THEN [ok |-> TRUE, v |-> -1]
    ELSE LET sline == Strip(Head(lines))
         IN  IF ~StartsWith(sline, <<"#">>) THEN [ok |-> TRUE, v |-> -1]
             ELSE IF Contains(sline, NumberOfSources) THEN PyInt(CountText(sline))
             ELSE ScanLines(Tail(lines))

\* lines 180-229 for one drizzle file: catalog_list and the files named by it
\* (texts, by catalog name); the unit of work it leaves
NumSourcesBody(drizzle, catalog_list, texts) ==
    LET cat_names == CatNames(drizzle)
        Listed(catalog) == \E x \in catalog_list : CatalogIn(catalog, x)
        Count(catalog) == IF Listed(catalog) THEN ScanLines(texts[catalog])
                          ELSE [ok |-> TRUE, v |-> 0]
        Of(type) == IF CatType(cat_names[1]) = type THEN Count(cat_names[1])
                    ELSE Count(cat_names[2])
        base == [NoUnit EXCEPT !.fn = "compare_num_sources", !.drizzle = drizzle,
                               !.point_exists = Listed(cat_names[1]),
                               !.seg_exists = Listed(cat_names[2]),
                               !.point = IF Listed(cat_names[1]) THEN texts[cat_names[1]]
                                         ELSE <<>>,
                               !.seg = IF Listed(cat_names[2]) THEN texts[cat_names[2]]
                                       ELSE <<>>]
    IN  IF ~Count(cat_names[1]).ok \/ ~Count(cat_names[2]).ok
        THEN [base EXCEPT !.raised = "ValueError"]
        ELSE [base EXCEPT !.wrote = TRUE, !.json = NumSourcesJson(drizzle),
                          !.content = [detector |-> drizzle[5],
                                       point |-> Of("point").v,
                                       segment |-> Of("segment").v]]

----------------------------------------------------------------------------
(* Specification SpecXM: one call of compare_ra_dec_crossmatches, or one   *)
(* call of compare_photometry on a list of at most MaxProducts drizzle     *)
(* files, on any catalogs and any answer of the cross-matcher.             *)
(*   xpc        "idle", "photometry" (inside its loop), "returned", "raised" *)
(*   unit       the unit of work (product) processed last and what was done *)
(*   written    the json files written, by name                            *)
(*   nproducts  the drizzle files of the list taken so far                 *)
(*   done       per drizzle file taken, in list order, its name and what    *)
(*              became of it: "wrote", "skipped" or "raised"                *)

EmptyTable(who) == [who |-> who, rows |-> <<>>]

\* du.HapDiagnostic.add_data_item and write_json_file: the record is written to
\* the named file, replacing a file of that name
write_json_file(files, name, content) == DictSet(files, name, content)

\* what became of a unit of work
Outcome(u) == IF u.raised # "" THEN "raised" ELSE IF u.wrote THEN "wrote" ELSE "skipped"

\* the effect of a unit of work on the state
Processed(u, looping) ==
    /\ unit' = u
    /\ xpc' = IF u.raised # "" THEN "raised" ELSE IF looping THEN "photometry"
              ELSE "returned"
    /\ written' = IF u.wrote THEN write_json_file(written, u.json, u.content)
                  ELSE written

CompareRaDec ==
    /\ xpc = "idle"
    /\ \E point \in TablesUpTo("point", MaxRows), seg \in TablesUpTo("seg", MaxRows) :
          \E m \in getMatchedLists(Len(point.rows), Len(seg.rows)) :
             \E u \in {compare_ra_dec_crossmatches(
                           [drizzle |-> HapDrizzle, point |-> point, seg |-> seg], m)} :
                Processed(u, FALSE)
    /\ UNCHANGED <<nproducts, done, evars, dvars>>

\* line 512: the next drizzle file of the list
PhotometryProduct ==
    /\ xpc \in {"idle", "photometry"}
    /\ nproducts < MaxProducts
    /\ \E d \in DrizzleFiles, pe \in BOOLEAN, se \in BOOLEAN :
          \E point \in IF pe THEN PhotTables("point") ELSE {EmptyTable("point")},
             seg \in IF se THEN PhotTables("seg") ELSE {EmptyTable("seg")} :
             \E m \in getMatchedLists(Len(point.rows), Len(seg.rows)) :
                \E u \in {PhotometryBody(
                              [drizzle |-> d, point_exists |-> pe, seg_exists |-> se,
                               point |-> point, seg |-> seg], m)} :
                   Processed(u, TRUE)
    /\ nproducts' = nproducts + 1
    /\ done' = Append(done, [drizzle |-> unit'.drizzle, outcome |-> Outcome(unit')])
    /\ UNCHANGED <<evars, dvars>>

\* the list is exhausted: compare_photometry returns
PhotometryReturn ==
    /\ xpc \in {"idle", "photometry"}
    /\ xpc' = "returned"
    /\ UNCHANGED <<unit, written, nproducts, done, evars, dvars>>

XNext == CompareRaDec \/ PhotometryProduct \/ PhotometryReturn

SpecXM == Init /\ [][XNext]_vars

----------------------------------------------------------------------------
(* Specification SpecNS: one call of compare_num_sources on a list of at    *)
(* most MaxProducts drizzle files; xpc is "idle", "numsources" (inside the  *)
(* loop), "returned" or "raised".                                           *)

\* the directories the entries of catalog_list may carry
CatalogDirs == {"", "./"}

\* one pass of the loop at line 179: the next drizzle file, which of its two
\* catalogs catalog_list names and what these files hold
NumSourcesProduct ==
    /\ xpc \in {"idle", "numsources"}
    /\ nproducts < MaxProducts
    /\ \E d \in TotalDrizzleFiles, dir \in CatalogDirs :
          \E listed \in SUBSET {CatNames(d)[1], CatNames(d)[2]} :
             \E texts \in [listed -> CatalogTexts] :
                \E u \in {NumSourcesBody(d, {[dir |-> dir, name |-> c] : c \in listed},
                                          texts)} :
                   /\ unit' = u
                   /\ xpc' = IF u.raised # "" THEN "raised" ELSE "numsources"
                   /\ written' = IF u.wrote
                                  THEN write_json_file(written, u.json, u.content)
                                  ELSE written
    /\ nproducts' = nproducts + 1
    /\ UNCHANGED <<done, evars, dvars>>

\* the list is exhausted: compare_num_sources returns
NumSourcesReturn ==
    /\ xpc \in {"idle", "numsources"}
    /\ xpc' = "returned"
    /\ UNCHANGED <<unit, written, nproducts, done, evars, dvars>>

NSNext == NumSourcesProduct \/ NumSourcesReturn

SpecNS == Init /\ [][NSNext]_vars

----------------------------------------------------------------------------
(* betadrizzle/tweakutils.py: write_shiftfile(image_list, filename, outwcs) *)

\* images of one image_list
MaxImages == 2

\* get_shiftfile_row() of an image without a fit
NoRow == <<>>

\* Image objects: the row get_shiftfile_row() returns and the refWCS they hold
Images ==
    {[name |-> "j8c0a1q", row |-> NoRow, refWCS |-> "wcs_a"],
     [name |-> "j8c0a1q", row |-> <<"j8c0a1q_flt.fits  0.25  -0.50  0.001  1.0\n">>,
      refWCS |-> "wcs_a"],
     [name |-> "j8c0b2q", row |-> <<"j8c0b2q_flt.fits  -1.50  0.75  0.002  1.0\n">>,
      refWCS |-> "wcs_b"]}

ImageLists == UNION {[1..n -> Images] : n \in 0..MaxImages}

ShiftFileNames == {"shifts.txt", "shifts_new.txt"}
OutWcsNames == {"tweak_wcs.fits", "ref_wcs.fits"}

\* ShiftRows stopping at the first row reported
RECURSIVE ShiftRowsFirst(_)
ShiftRowsFirst(image_list) ==
    IF image_list = <<>> THEN <<>>
    ELSE IF Head(image_list).row # NoRow THEN Head(image_list).row
    ELSE ShiftRowsFirst(Tail(image_list))

\* lines 272-278: the rows of the images that report one, in list order
RECURSIVE ShiftRows(_)
ShiftRows(image_list) ==
    IF image_list = <<>> THEN <<>>
    ELSE (IF Head(image_list).row # NoRow THEN Head(image_list).row ELSE <<>>)
         \o ShiftRows(Tail(image_list))

\* lines 293-296: the header of the shift file
ShiftHeader(outwcs) ==
    <<"# frame: output\n", <<"# refimage: ", outwcs, "[wcs]\n">>,
      "# form: delta\n", "# units: pixels\n">>

\* lines 285-288: the reference WCS file
RefWcsFile(image_list) == <<"PrimaryHDU", <<"WCS", image_list[1].refWCS>>>>

\* lines 283-297 on the file system
WriteShiftFiles(fsys, image_list, filename, outwcs) ==
    LET f1 == IF outwcs \in DOMAIN fsys THEN RemoveFile(fsys, outwcs) ELSE fsys
        f2 == DictSet(f1, outwcs, RefWcsFile(image_list))
        f3 == IF filename \in DOMAIN f2 THEN RemoveFile(f2, filename) ELSE f2
    IN  DictSet(f3, filename, ShiftHeader(outwcs) \o ShiftRows(image_list))

\* One call.  run records the arguments (input), whether a file was at
\* filename (removed) and what it held (old).
write_shiftfile ==
    /\ nruns < MaxRuns
    /\ \E image_list \in ImageLists, filename \in ShiftFileNames,
          outwcs \in OutWcsNames :
          /\ fs' = IF ShiftRows(image_list) = <<>> THEN fs
                    ELSE WriteShiftFiles(fs, image_list, filename, outwcs)
          /\ run' = [NoRun EXCEPT
                        !.input = [image_list |-> image_list, filename |-> filename,
                                   outwcs |-> outwcs],
                        !.removed = (filename \in DOMAIN fs),
                        !.old = IF filename \in DOMAIN fs THEN fs[filename] ELSE <<>>]
    /\ ret' = NoneRet
    /\ nruns' = nruns + 1
    /\ UNCHANGED <<evars, xvars>>

SFNext == write_shiftfile

SpecSF == Init /\ [][SFNext]_vars

----------------------------------------------------------------------------
(* Claims about the cross-match statistics, checked under SpecXM           *)

\* the unit processed last got as far as building its masks
Masked == unit.matched /\ unit.raised = "" /\ unit.idx_point # <<>>

FlagCol == IF unit.fn = "compare_photometry" THEN "Flags" ELSE "FLAGS"
ValueCols == IF unit.fn = "compare_photometry" THEN <<"MagAp1", "MagAp2">>
             ELSE <<"RA", "DEC">>

\* both flags of matched pair k, ANDed, equal the good bits
FlagsGood(k) ==
    BitAnd(Cell(unit.point, unit.idx_point[k], FlagCol),
           Cell(unit.seg, unit.idx_seg[k], FlagCol)) = good_flag_sum

\* no column both catalogs have is missing in either row of matched pair k
NoneMissing(k) ==
    \A col \in PointCols \cap SegCols :
        /\ Cell(unit.point, unit.idx_point[k], col) # Missing
        /\ Cell(unit.seg, unit.idx_seg[k], col) # Missing

\* the matched pairs (by position) a mask keeps, in order
RECURSIVE KeptFrom(_, _)
KeptFrom(mask, k) ==
    IF k > Len(mask) THEN <<>>
    ELSE IF mask[k] THEN <<k>> \o KeptFrom(mask, k + 1) ELSE KeptFrom(mask, k + 1)

\* C16: when the cross-matcher returns an empty index sequence for either
\* catalog, compare_ra_dec_crossmatches reports it and returns, without raising
\* and without writing a json file, whatever the catalog lengths (0 included).
C16_ZeroMatchReported ==
    (/\ unit.fn = "compare_ra_dec_crossmatches"
     /\ (unit.idx_point = <<>> \/ unit.idx_seg = <<>>)) =>
        /\ xpc = "returned" /\ unit.raised = ""
        /\ unit.log # {}
        /\ ~unit.wrote /\ written = <<>>

\* C17: a matched pair counts as good only if the two flag values ANDed equal
\* good_flag_sum (255); the values the RA/Dec and photometry statistics use are
\* those of the pairs the mask keeps, so a pair with 254 and 255 is not used.
C17_FlagAndGood ==
    Masked =>
        /\ \A k \in 1..Len(unit.idx_point) : unit.bitmask[k] => FlagsGood(k)
        /\ LET kept == KeptFrom([k \in 1..Len(unit.idx_point) |-> FlagsGood(k)
                                                               /\ NoneMissing(k)], 1)
           IN  \A c \in 1..2 :
                  unit.values[c] =
                     <<[j \in 1..Len(kept) |->
                          Cell(unit.point, unit.idx_point[kept[j]], ValueCols[c])],
                       [j \in 1..Len(kept) |->
                          Cell(unit.seg, unit.idx_seg[kept[j]], ValueCols[c])]>>

\* two matched pairs, the first with flags 254 (point) and 255 (segment), the
\* second good: only the second is used
C17_Witness ==
    /\ Masked /\ unit.wrote /\ Len(unit.idx_point) = 2
    /\ Cell(unit.point, unit.idx_point[1], FlagCol) = good_flag_sum - 1
    /\ Cell(unit.seg, unit.idx_seg[1], FlagCol) = good_flag_sum
    /\ unit.bitmask = <<FALSE, TRUE>>
    /\ Len(unit.values[1][1]) = 1

\* C18: the quality mask has one entry per matched pair and is the logical AND
\* of the flag test and the missing-value mask: no pair with a missing value in
\* a compared column of either catalog is marked good.
C18_MaskIsConjunction ==
    Masked =>
        /\ Len(unit.bitmask) = Len(unit.idx_point)
        /\ \A k \in 1..Len(unit.idx_point) :
              unit.bitmask[k] <=> (FlagsGood(k) /\ NoneMissing(k))

\* a pair whose flags are both 255 and whose segment row misses RA is not good
C18_Witness ==
    /\ Masked
    /\ \E k \in 1..Len(unit.idx_point) :
          /\ FlagsGood(k)
          /\ Cell(unit.seg, unit.idx_seg[k], "RA") = Missing
          /\ ~unit.bitmask[k]

\* C19: for the catalogs and the equal-length matched index sequences of a
\* processed unit and every boolean mask of that length, gathering a column at
\* the matched indices and compressing by the mask equals gathering at the
\* mask-selected indices; the RA/Dec values the statistics use are that 2xN
\* result for the quality mask.
C19_MaskGatherCommute ==
    (unit.matched /\ unit.raised = "") =>
        /\ \A col \in {"RA", "DEC", "MagAp1"} :
              \A mask \in [1..Len(unit.idx_point) -> BOOLEAN] :
                 extractMatchedLines(col, unit.point, unit.seg, unit.idx_point,
                                     unit.idx_seg, Bitmask(mask))
                 = extractMatchedLines(col, unit.point, unit.seg,
                                       MaskSelect(unit.idx_point, mask),
                                       MaskSelect(unit.idx_seg, mask), NoBitmask)
        /\ (Masked /\ unit.fn = "compare_ra_dec_crossmatches") =>
              \A c \in 1..2 :
                 unit.values[c] =
                    extractMatchedLines(ValueCols[c], unit.point, unit.seg,
                                        MaskSelect(unit.idx_point, unit.bitmask),
                                        MaskSelect(unit.idx_seg, unit.bitmask),
                                        NoBitmask)

\* two matched pairs with different rows in the two catalogs, one of them kept
C19_Witness ==
    /\ Masked /\ unit.fn = "compare_ra_dec_crossmatches"
    /\ Len(unit.idx_point) = 2 /\ unit.idx_point # unit.idx_seg
    /\ unit.bitmask = <<TRUE, FALSE>>
    /\ Len(unit.values[1][1]) = 1 /\ unit.values[1][1] # unit.values[1][2]

\* C20: when the quality mask keeps no matched pair, the product's statistics
\* are given up with a warning: nothing is raised and no statistics record is
\* written, in compare_ra_dec_crossmatches and in compare_photometry alike.
C20_NoValidPairsNoRecord ==
    (Masked /\ \A k \in 1..Len(unit.bitmask) : ~unit.bitmask[k]) =>
        /\ unit.raised = "" /\ xpc # "raised"
        /\ unit.log # {}
        /\ ~unit.wrote

\* C21: in compare_photometry, a drizzle file whose point or segment catalog
\* does not exist is skipped with a warning: its catalogs are not read, no json
\* is written for it, nothing is raised and the loop goes on.
C21_MissingCatalogSkipped ==
    (/\ unit.fn = "compare_photometry"
     /\ (~unit.point_exists \/ ~unit.seg_exists)) =>
        /\ unit.raised = "" /\ xpc # "raised"
        /\ unit.log # {}
        /\ ~unit.matched /\ ~unit.wrote

\* the step processes the next drizzle file of compare_photometry
PhotometryStep == nproducts' = nproducts + 1 /\ unit'.fn = "compare_photometry"

\* the product compare_photometry was given for unit u, and the answer of the
\* cross-matcher for it
ProductOf(u) ==
    [drizzle |-> u.drizzle, point_exists |-> u.point_exists,
     seg_exists |-> u.seg_exists, point |-> u.point, seg |-> u.seg]
MatchedOf(u) == <<u.idx_point, u.idx_seg>>

\* C22: in compare_photometry a drizzle file whose catalogs have no cross-match
\* writes no json file and raises nothing, the loop goes on, and the drizzle
\* file taken next gets the result it gets when processed alone: the files
\* written so far are kept and its own file holds its own statistics.
C22_ZeroMatchIndependent ==
    [][PhotometryStep =>
         /\ (unit'.matched /\ unit'.idx_point = <<>>) =>
               /\ unit'.raised = "" /\ xpc' = "photometry"
               /\ ~unit'.wrote /\ written' = written
               /\ unit'.log # {}
         /\ (unit'.point_exists /\ unit'.seg_exists) =>
               /\ unit' = PhotometryBody(ProductOf(unit'), MatchedOf(unit'))
               /\ written' = IF unit'.idx_point = <<>> THEN written
                             ELSE DictSet(written, PhotometryJson(unit'.drizzle),
                                          unit'.content)]_vars

\* a drizzle file without cross-matches was skipped and the next drizzle file
\* of the list, a different one, wrote its json file, the only one there is
C22_Witness ==
    /\ Len(done) = 2
    /\ done[1].outcome = "skipped" /\ done[2].outcome = "wrote"
    /\ done[1].drizzle # done[2].drizzle
    /\ DOMAIN written = {PhotometryJson(done[2].drizzle)}
    /\ unit.idx_point # <<>>

\* C25: for every drizzle file compare_photometry writes a result for, the
\* record holds, for MagAp1 and for MagAp2, exactly the mean, the standard
\* deviation and the median of Point minus Segment over the matched pairs the
\* mask keeps; the per-pair errors are computed and are not in the record.
C25_PhotometryRecord ==
    (unit.fn = "compare_photometry" /\ unit.wrote) =>
        LET kept == KeptFrom(unit.bitmask, 1)
            Delta(col) ==
                [j \in 1..Len(kept) |->
                    Cell(unit.point, unit.idx_point[kept[j]], col)
                    - Cell(unit.seg, unit.idx_seg[kept[j]], col)]
            rec == written[PhotometryJson(unit.drizzle)]
        IN  /\ DOMAIN rec = {"detector", "filter_name", "MagAp1", "MagAp2"}
            /\ rec.detector = unit.drizzle[5] /\ rec.filter_name = unit.drizzle[6]
            /\ \A col \in {"MagAp1", "MagAp2"} :
                  /\ DOMAIN rec[col] = {"mean", "std", "median"}
                  /\ IF kept = <<>>
                     THEN rec[col] = [mean |-> NaN, std |-> NaN, median |-> NaN]
                     ELSE /\ rec[col].mean = Frac(SeqSum(Delta(col)), Len(kept))
                          /\ rec[col].median = Frac(Median2(Delta(col)), 2)
                          /\ rec[col].std = StdOf(Delta(col))
            /\ \A c \in 1..2 : Len(unit.errors[c]) = Len(kept)

\* a result written from one valid matched pair, whose differences are not 0
\* and differ between the two magnitude columns
C25_Witness ==
    /\ unit.fn = "compare_photometry" /\ unit.wrote
    /\ unit.bitmask = <<TRUE>>
    /\ written[unit.json].MagAp1.mean.num < 0
    /\ written[unit.json].MagAp1.mean # written[unit.json].MagAp2.mean
    /\ unit.errors[1] # <<>>

----------------------------------------------------------------------------
(* Claims about the output files, checked under SpecDAR                    *)

Wrote(r) == r \notin {NoneRet, RaisedRet}

\* C23: no two distinct units of work write the same output file: two runs of
\* determine_alignment_residuals with different inputs that both write get
\* different file names, and so do two different drizzle files of one
\* compare_num_sources or compare_photometry batch.
C23_DistinctArtifacts ==
    [][nruns' = nruns + 1 =>
         /\ (nruns > 0 /\ run'.input # run.input /\ Wrote(ret) /\ Wrote(ret')) =>
               ret' # ret
         /\ \A a, b \in TotalDrizzleFiles :
               a # b => NumSourcesJson(a) # NumSourcesJson(b)
         /\ \A a, b \in DrizzleFiles :
               a # b => PhotometryJson(a) # PhotometryJson(b)]_vars

\* C24: when determine_alignment_residuals succeeds, the file
\* <input[:9]>_astrometry_resids.json holds exactly the results of this run: a
\* file that was there is replaced, nothing of its content remains, and no
\* other file is touched.
C24_FileReplaced ==
    [][(nruns' = nruns + 1 /\ Wrote(ret')) =>
          /\ ret' = ResidsFile(run'.input)
          /\ DOMAIN fs' = DOMAIN fs \cup {ret'}
          /\ fs'[ret'] = json_dump(run'.resids)
          /\ \A p \in DOMAIN fs \ {ret'} : fs'[p] = fs[p]]_vars

\* the second run removed the file of the first, whose content was different,
\* and the file now holds the second run's results
C24_Witness ==
    /\ nruns = 2 /\ Wrote(ret)
    /\ run.removed /\ run.old # fs[ret]
    /\ json_load(fs[ret]) = run.resids

----------------------------------------------------------------------------
(* Claims about write_shiftfile, checked under SpecSF                      *)

\* the images of a list that report a shiftfile row, in list order
Reporting(image_list) ==
    LET Reports(img) == img.row # NoRow IN SelectSeq(image_list, Reports)

\* C30: write_shiftfile writes nothing when no image of the list reports a row
\* (no file is created and existing files are left as they are); when some
\* image reports one, the shift file and the reference WCS file are both
\* replaced, and the shift file holds the four header lines and then the rows of
\* exactly the images that reported one, in list order.
C30_ShiftfileWritten ==
    [][nruns' = nruns + 1 =>
         LET a == run'.input
             rep == Reporting(a.image_list)
         IN  IF rep = <<>> THEN fs' = fs
             ELSE /\ DOMAIN fs' = DOMAIN fs \cup {a.filename, a.outwcs}
                  /\ \A p \in DOMAIN fs \ {a.filename, a.outwcs} : fs'[p] = fs[p]
                  /\ fs'[a.outwcs] = <<"PrimaryHDU", <<"WCS", a.image_list[1].refWCS>>>>
                  /\ Len(fs'[a.filename]) = 4 + Len(rep)
                  /\ SubSeq(fs'[a.filename], 1, 4) = ShiftHeader(a.outwcs)
                  /\ \A k \in 1..Len(rep) : fs'[a.filename][4 + k] = rep[k].row[1]]_vars

\* the second call replaced a shift file that held something else; of its two
\* images only the second reported a row
C30_Witness ==
    /\ nruns = 2 /\ run.removed
    /\ Len(run.input.image_list) = 2
    /\ run.input.image_list[1].row = NoRow
    /\ run.input.image_list[2].row # NoRow
    /\ run.old # fs[run.input.filename]
    /\ Len(fs[run.input.filename]) = 5

----------------------------------------------------------------------------
(* Claims about compare_num_sources, checked under SpecNS                  *)

\* the number the digits of a line spell
DigitsOn(line) ==
    LET IsDigit(c) == \E d \in 1..10 : DigitChars[d] = c
    IN  DigitsValue(SelectSeq(line, IsDigit))

IsComment(line) == LStrip(line) # <<>> /\ LStrip(line)[1] = "#"

\* the count the record is to hold for a catalog: 0 when it is not listed; when
\* it is, the integer on the first 'Number of sources' line if comment lines
\* only come before it, and -1 otherwise
ExpectedCount(listed, text) ==
    IF ~listed THEN 0
    ELSE LET hits == {i \in 1..Len(text) :
                         /\ IsComment(text[i]) /\ Contains(text[i], NumberOfSources)
                         /\ \A j \in 1..(i - 1) : IsComment(text[j])}
         IN  IF hits = {} THEN -1
             ELSE DigitsOn(text[CHOOSE i \in hits : \A j \in hits : i <= j])

\* C29: for every drizzle file compare_num_sources takes, exactly one record is
\* written, to the file named after the drizzle file; its point and segment
\* counts are 0 for a catalog catalog_list does not name, the integer on the
\* 'Number of sources' line for a listed catalog that has one in its leading
\* comment block, and -1 for a listed catalog in which a non-comment line or the
\* end of the file comes first.
C29_NumSourcesRecord ==
    [][nproducts' = nproducts + 1 =>
         LET u == unit'
             name == NumSourcesJson(u.drizzle)
         IN  /\ u.raised = "" /\ u.wrote
             /\ DOMAIN written' = DOMAIN written \cup {name}
             /\ \A n \in DOMAIN written \ {name} : written'[n] = written[n]
             /\ written'[name] =
                   [detector |-> u.drizzle[5],
                    point |-> ExpectedCount(u.point_exists, u.point),
                    segment |-> ExpectedCount(u.seg_exists, u.seg)]]_vars

\* two drizzle files were taken; the record of the second holds the count 12 of
\* its point catalog and -1 for its segment catalog, whose table starts before
\* the count line; the record of the first is in its own file
C29_Witness ==
    /\ xpc = "numsources" /\ nproducts = 2
    /\ unit.point_exists /\ unit.seg_exists
    /\ unit.seg = <<LineEcsv, LineData, LineCount12>>
    /\ written[unit.json].point = 12
    /\ written[unit.json].segment = -1
    /\ Cardinality(DOMAIN written) = 2

====
